---- MODULE Spec2Model ----
(***************************************************************************)
(* Model of update_data.py, the indicator updater of the BTC Top          *)
(* Dashboard: the date-aligned series helpers, the seven update_* steps,   *)
(* and main()'s load / update / save run over data.json.                   *)
(*                                                                         *)
(* Numbers.  Dates are day numbers.  Series values are integers.  A ratio  *)
(* computed by the code (a float) is kept exact as [n, d] with d > 0, and  *)
(* round(x, k) is round-half-even on the exact value.  Optional[float] is  *)
(* None == <<>> or Some(x) == <<x>>.                                       *)
(***************************************************************************)
EXTENDS Integers, Sequences, FiniteSets, TLC

VARIABLES pc, data, file, old, prev, last, fn, args, result

vars == <<pc, data, file, old, prev, last, fn, args, result>>

(***************************************************************************)
(* Bounds of the model.                                                    *)
(***************************************************************************)
FnMaxDate == 2
FnMaxVal == 1
FnMaxLen == 3
MergeMaxDate == 1
RunMaxVal == 1
MaxStore == 2

(***************************************************************************)
(* Program constants.                                                      *)
(***************************************************************************)
YearDays == 365
ImpulseDays == 90
GrowthDays == 90
MinBetaSamples == 20
LastDays == 5
RequestDays == 120

None == <<>>
Some(x) == <<x>>

Abs(x) == IF x >= 0 THEN x ELSE -x

Ratio(num, den) == [n |-> num, d |-> den]

\* Equality of two exact ratios with positive denominators.
RatEq(a, b) == a.n * b.d = b.n * a.d

\* Equality of two optional ratios.
OptRatEq(a, b) ==
    IF a = None \/ b = None THEN a = None /\ b = None ELSE RatEq(a[1], b[1])

(***************************************************************************)
(* _value_near: min(series, key=|date - target|).  Python's min keeps the  *)
(* first element among those with the least key.                           *)
(***************************************************************************)
RECURSIVE MinByKey(_, _, _, _)
MinByKey(series, target, i, best) ==
    IF i > Len(series) THEN best
    ELSE MinByKey(series, target, i + 1,
                  IF Abs(series[i][1] - target) < Abs(series[best][1] - target)
                  THEN i ELSE best)

\* min() replaced by a scan that keeps the last of the nearest points.
_value_near_last(series, target) ==
    IF series = <<>> THEN None
    ELSE LET best == CHOOSE i \in 1..Len(series) :
                 /\ \A j \in 1..Len(series) :
                        Abs(series[j][1] - target) >= Abs(series[i][1] - target)
                 /\ \A j \in (i + 1)..Len(series) :
                        Abs(series[j][1] - target) > Abs(series[i][1] - target)
         IN  Some(series[best][2])

_value_near(series, target) ==
    IF series = <<>> THEN None
    ELSE Some(series[MinByKey(series, target, 2, 1)][2])

(***************************************************************************)
(* _yoy and _change_vs_days_ago.                                           *)
(***************************************************************************)
\* The reference date taken one day too early.
_change_vs_days_ago_early(series, days) ==
    IF series = <<>> THEN None
    ELSE LET latest_date == series[Len(series)][1]
             latest_val == series[Len(series)][2]
             ref_date == latest_date - days - 1
             prv == _value_near(series, ref_date)
         IN  IF prv = None \/ prv[1] = 0 THEN None
             ELSE Some(Ratio(latest_val - prv[1], Abs(prv[1])))

_change_vs_days_ago(series, days) ==
    IF series = <<>> THEN None
    ELSE LET latest_date == series[Len(series)][1]
             latest_val == series[Len(series)][2]
             ref_date == latest_date - days
             prv == _value_near(series, ref_date)
         IN  IF prv = None \/ prv[1] = 0 THEN None
             ELSE Some(Ratio(latest_val - prv[1], Abs(prv[1])))

\* The guard on a zero year-ago value left out.
_yoy_no_zero_guard(series) ==
    IF series = <<>> THEN None
    ELSE LET latest_date == series[Len(series)][1]
             latest_val == series[Len(series)][2]
             year_ago == latest_date - YearDays
             prv == _value_near(series, year_ago)
         IN  IF prv = None THEN None
             ELSE Some(Ratio(latest_val - prv[1], Abs(prv[1])))

_yoy(series) ==
    IF series = <<>> THEN None
    ELSE LET latest_date == series[Len(series)][1]
             latest_val == series[Len(series)][2]
             year_ago == latest_date - YearDays
             prv == _value_near(series, year_ago)
         IN  IF prv = None \/ prv[1] = 0 THEN None
             ELSE Some(Ratio(latest_val - prv[1], Abs(prv[1])))

(***************************************************************************)
(* _merge_net_liquidity: Net = BS - RRP - TGA over the union of the dates. *)
(***************************************************************************)
SetMin(S) == CHOOSE m \in S : \A x \in S : m <= x

RECURSIVE sorted(_)
sorted(S) == IF S = {} THEN <<>>
             ELSE <<SetMin(S)>> \o sorted(S \ {SetMin(S)})

DatesOf(series) == {series[i][1] : i \in 1..Len(series)}

\* Every list of at most maxlen points, in any order, dates repeated or not.
AnySeries(dates, vals, maxlen) ==
    UNION {[1..n -> dates \X vals] : n \in 0..maxlen}

\* Every series ascending by date without duplicate dates (a TimeSeries).
AscSeries(dates, vals, maxlen) ==
    UNION {{[i \in 1..Cardinality(D) |-> <<sorted(D)[i], f[sorted(D)[i]]>>] :
                f \in [D -> vals]} :
           D \in {X \in SUBSET dates : Cardinality(X) <= maxlen}}

NoCall == [series |-> <<>>, n |-> 0]

\* Python's `x or 0.0` on an Optional[float]: None and 0.0 both give 0.0.
OrZero(opt) == IF opt = None \/ opt[1] = 0 THEN 0 ELSE opt[1]

\* The treasury account added instead of subtracted.
_merge_net_liquidity_plus(rrp, tga, bs) ==
    LET all_dates == sorted(DatesOf(rrp) \cup DatesOf(tga) \cup DatesOf(bs))
    IN  [i \in 1..Len(all_dates) |->
            LET d == all_dates[i]
                r == OrZero(_value_near(rrp, d))
                t == OrZero(_value_near(tga, d))
                b == OrZero(_value_near(bs, d))
            IN  <<d, b - r + t>>]

_merge_net_liquidity(rrp, tga, bs) ==
    LET all_dates == sorted(DatesOf(rrp) \cup DatesOf(tga) \cup DatesOf(bs))
    IN  [i \in 1..Len(all_dates) |->
            LET d == all_dates[i]
                r == OrZero(_value_near(rrp, d))
                t == OrZero(_value_near(tga, d))
                b == OrZero(_value_near(bs, d))
            IN  <<d, b - r - t>>]

(***************************************************************************)
(* Numbers written to the store.  round(x, k) and the formats "{x:.kf}"    *)
(* give the count of 10^-k units nearest to x, ties to the even count.     *)
(***************************************************************************)
RoundDiv(n, d) ==
    LET q == n \div d
        r == n % d
    IN  IF 2 * r < d THEN q
        ELSE IF 2 * r > d THEN q + 1
        ELSE IF q % 2 = 0 THEN q ELSE q + 1

round(x, ndigits) == RoundDiv(x.n * (10 ^ ndigits), x.d)

\* An Optional[float] rounded when it is there ("N/A" or None when not).
roundOpt(opt, ndigits) ==
    IF opt = None THEN None ELSE Some(round(opt[1], ndigits))

Times100(x) == Ratio(x.n * 100, x.d)

RatAdd(a, b) == Ratio(a.n * b.d + b.n * a.d, a.d * b.d)

RECURSIVE sum(_)
sum(xs) == IF xs = <<>> THEN 0 ELSE xs[1] + sum(Tail(xs))

RECURSIVE sumRat(_)
sumRat(xs) == IF xs = <<>> THEN Ratio(0, 1) ELSE RatAdd(xs[1], sumRat(Tail(xs)))

(***************************************************************************)
(* Dictionaries (the indicator records and their meta) are functions from  *)
(* key strings.  Names and keywords are sequences of words; lower() maps    *)
(* each word to its lower-case form and `in` is the contiguous-run test.   *)
(***************************************************************************)
EmptyDict == <<>>

Get(d, key, default) == IF key \in DOMAIN d THEN d[key] ELSE default

DictUpdate(d, patch) == patch @@ d

SetItem(d, key, value) == (key :> value) @@ d

SetDefault(d, key, value) == IF key \in DOMAIN d THEN d ELSE SetItem(d, key, value)

LowerWord(w) ==
    CASE w = "RRP" -> "rrp"
      [] w = "TGA" -> "tga"
      [] w = "Fed" -> "fed"
      [] w = "FED" -> "fed"
      [] w = "Net" -> "net"
      [] w = "NET" -> "net"
      [] w = "Liquidity" -> "liquidity"
      [] w = "LIQUIDITY" -> "liquidity"
      [] w = "USDT.D" -> "usdt.d"
      [] w = "ETF" -> "etf"
      [] w = "YoY" -> "yoy"
      [] OTHER -> w

lower(str) == [i \in 1..Len(str) |-> LowerWord(str[i])]

In(key, str) ==
    \E k \in 0..(Len(str) - Len(key)) : SubSeq(str, k + 1, k + Len(key)) = key

\* The keywords the update steps look their record up by.
KW_RRP == <<"RRP", "reverse-repo">>
KW_TGA == <<"TGA", "treasury-account">>
KW_FED == <<"Fed", "balance-sheet">>
KW_NET == <<"Net", "Liquidity", "composite">>
KW_STABLE == <<"stablecoin-supply", "90", "day-growth">>
KW_USDT == <<"USDT.D", "stablecoin-share">>
KW_ETF == <<"ETF", "5", "day-net-flow">>

\* The index of the first record whose name holds the keyword, 0 for None.
find_indicator(records, keyword) ==
    LET key == lower(keyword)
        hits == {i \in 1..Len(records) : In(key, lower(Get(records[i], "name", <<>>)))}
    IN  IF hits = {} THEN 0 ELSE SetMin(hits)

(***************************************************************************)
(* data.json: a file that is absent, or holds the records written so far   *)
(* and is complete once the closing bracket is written.                    *)
(***************************************************************************)
NoFile == [exists |-> FALSE, recs |-> <<>>, complete |-> FALSE]

StoreFile(records) == [exists |-> TRUE, recs |-> records, complete |-> TRUE]

load_data(f) ==
    IF ~f.exists THEN <<>>
    ELSE IF ~f.complete THEN <<>>
    ELSE f.recs

(***************************************************************************)
(* _fred_series: the observations with a numeric value, as (date, value).  *)
(* A value is a number, a sentinel (None, "", ".") or text float() rejects. *)
(***************************************************************************)
Num(v) == [kind |-> "num", v |-> v]
Sentinel == [kind |-> "sentinel", v |-> 0]
Bad == [kind |-> "bad", v |-> 0]

RECURSIVE _fred_series(_)
_fred_series(observations) ==
    IF observations = <<>> THEN <<>>
    ELSE LET obs == observations[1]
             rest == _fred_series(Tail(observations))
         IN  IF obs.value.kind = "sentinel" THEN rest
             ELSE IF obs.value.kind = "bad" THEN rest
             ELSE <<<<obs.date, obs.value.v>>>> \o rest

(***************************************************************************)
(* What an update step returns to main(): the records, and whether it      *)
(* wrote its record, returned early, or let an exception out.              *)
(***************************************************************************)
Updated(records) == [data |-> records, status |-> "updated"]
Skipped(records) == [data |-> records, status |-> "skipped"]
Raised(records) == [data |-> records, status |-> "raised"]

\* The meta replaced by the patch instead of updated with it.
WriteReplacingMeta(indicator, current, patch, detail) ==
    LET a == SetItem(indicator, "current", current)
        c == SetItem(a, "meta", patch)
    IN  SetItem(c, "detail", detail)

\* The new value added to the stored one instead of replacing it.
WriteAccumulating(indicator, current, patch, detail) ==
    LET a == SetItem(indicator, "current", Get(indicator, "current", 0) + current)
        b == SetDefault(a, "meta", EmptyDict)
        c == SetItem(b, "meta", DictUpdate(b["meta"], patch))
    IN  SetItem(c, "detail", detail)

\* indicator["current"] = ...; setdefault("meta", {}); meta.update(patch);
\* indicator["detail"] = ...
Write(indicator, current, patch, detail) ==
    LET a == SetItem(indicator, "current", current)
        b == SetDefault(a, "meta", EmptyDict)
        c == SetItem(b, "meta", DictUpdate(b["meta"], patch))
    IN  SetItem(c, "detail", detail)

\* The meta created as soon as the record is found, ahead of the fetch.
update_rrp_yoy_meta_first(records, inp) ==
    LET i == find_indicator(records, KW_RRP)
        early == IF i = 0 THEN records
                 ELSE [records EXCEPT ![i] = SetDefault(@, "meta", EmptyDict)]
    IN  IF i = 0 THEN Skipped(records)
        ELSE IF inp.fred[1].kind = "raise" THEN Skipped(early)
        ELSE LET series == _fred_series(inp.fred[1].observations)
                 yoy == _yoy(series)
             IN  IF yoy = None THEN Skipped(early)
                 ELSE LET yoy_pct == Times100(yoy[1])
                      IN  Updated([records EXCEPT ![i] =
                              Write(@, round(yoy_pct, 2),
                                    [source |-> "FRED RRPONTSYD",
                                     last_date |-> series[Len(series)][1]],
                                    <<"RRP YoY", <<Some(round(yoy_pct, 2))>>>>)])

update_rrp_yoy(records, inp) ==
    LET i == find_indicator(records, KW_RRP)
    IN  IF i = 0 THEN Skipped(records)
        ELSE IF inp.fred[1].kind = "raise" THEN Skipped(records)
        ELSE LET series == _fred_series(inp.fred[1].observations)
                 yoy == _yoy(series)
             IN  IF yoy = None THEN Skipped(records)
                 ELSE LET yoy_pct == Times100(yoy[1])
                      IN  Updated([records EXCEPT ![i] =
                              Write(@, round(yoy_pct, 2),
                                    [source |-> "FRED RRPONTSYD",
                                     last_date |-> series[Len(series)][1]],
                                    <<"RRP YoY", <<Some(round(yoy_pct, 2))>>>>)])

update_tga_yoy(records, inp) ==
    LET i == find_indicator(records, KW_TGA)
    IN  IF i = 0 THEN Skipped(records)
        ELSE IF inp.fred[1].kind = "raise" THEN Skipped(records)
        ELSE LET series == _fred_series(inp.fred[1].observations)
                 yoy == _yoy(series)
             IN  IF yoy = None THEN Skipped(records)
                 ELSE LET yoy_pct == Times100(yoy[1])
                      IN  Updated([records EXCEPT ![i] =
                              Write(@, round(yoy_pct, 2),
                                    [source |-> "FRED WTREGEN",
                                     last_date |-> series[Len(series)][1]],
                                    <<"TGA YoY", <<Some(round(yoy_pct, 2))>>>>)])

update_fed_bs_yoy(records, inp) ==
    LET i == find_indicator(records, KW_FED)
    IN  IF i = 0 THEN Skipped(records)
        ELSE IF inp.fred[1].kind = "raise" THEN Skipped(records)
        ELSE LET series == _fred_series(inp.fred[1].observations)
                 yoy == _yoy(series)
             IN  IF yoy = None THEN Skipped(records)
                 ELSE LET yoy_pct == Times100(yoy[1])
                      IN  Updated([records EXCEPT ![i] =
                              Write(@, round(yoy_pct, 2),
                                    [source |-> "FRED WALCL",
                                     last_date |-> series[Len(series)][1]],
                                    <<"Fed BS YoY", <<Some(round(yoy_pct, 2))>>>>)])

(***************************************************************************)
(* _compute_beta_vs_btc.  The download is a frame of daily rows, each a    *)
(* price per column, or it raises.  A helper that can raise returns         *)
(* [raised, value].                                                        *)
(***************************************************************************)
Ok(value) == [raised |-> FALSE, value |-> value]
Raises == [raised |-> TRUE, value |-> None]

_compute_beta_vs_btc(net_series, btc) ==
    IF net_series = <<>> THEN Ok(None)
    ELSE IF btc.kind = "raise" THEN Raises
    ELSE IF DOMAIN btc.rows = {} \/ btc.columns = {} THEN Ok(None)
    ELSE LET end_date == net_series[Len(net_series)][1]
             start_date == end_date - YearDays
             price_col == IF "Adj Close" \in btc.columns THEN Some("Adj Close")
                          ELSE IF "Close" \in btc.columns THEN Some("Close")
                          ELSE None
         IN  IF price_col = None THEN Ok(None)
             ELSE LET price == [d \in DOMAIN btc.rows |-> btc.rows[d][price_col[1]]]
                      pairs == SelectSeq(net_series,
                                   LAMBDA p : /\ ~(p[1] < start_date \/ p[1] > end_date)
                                              /\ p[1] \in DOMAIN price)
                      n == Len(pairs)
                      xs == [k \in 1..n |-> pairs[k][2]]
                      ys == [k \in 1..n |-> price[pairs[k][1]]]
                      \* n^2 * cov and n^2 * var_x, so that cov / var_x is their ratio
                      cov == n * sum([k \in 1..n |-> xs[k] * ys[k]]) - sum(xs) * sum(ys)
                      var_x == n * sum([k \in 1..n |-> xs[k] * xs[k]]) - sum(xs) * sum(xs)
                  IN  IF n < MinBetaSamples THEN Ok(None)
                      ELSE IF var_x = 0 THEN Ok(None)
                      ELSE Ok(Some(Ratio(cov, var_x)))

update_net_liquidity(records, inp) ==
    LET i == find_indicator(records, KW_NET)
    IN  IF i = 0 THEN Skipped(records)
        ELSE IF \E k \in 1..3 : inp.fred[k].kind = "raise" THEN Skipped(records)
        ELSE LET rrp == _fred_series(inp.fred[1].observations)
                 tga == _fred_series(inp.fred[2].observations)
                 bs == _fred_series(inp.fred[3].observations)
                 net == _merge_net_liquidity(rrp, tga, bs)
                 yoy == _yoy(net)
                 impulse == _change_vs_days_ago(net, ImpulseDays)
                 beta == _compute_beta_vs_btc(net, inp.btc)
             IN  IF beta.raised THEN Raised(records)
                 ELSE IF yoy = None THEN Skipped(records)
                 ELSE LET yoy_pct == Times100(yoy[1])
                          impulse_pct == IF impulse # None
                                         THEN Some(Times100(impulse[1])) ELSE None
                      IN  Updated([records EXCEPT ![i] =
                              Write(@, round(yoy_pct, 2),
                                    [source |-> "FRED WALCL/RRPONTSYD/WTREGEN",
                                     last_date |-> net[Len(net)][1],
                                     impulse_90d_pct |-> roundOpt(impulse_pct, 2),
                                     beta_vs_btc |-> roundOpt(beta.value, 3)],
                                    <<"Net Liquidity YoY",
                                      <<Some(round(yoy_pct, 2)),
                                        roundOpt(impulse_pct, 2),
                                        roundOpt(beta.value, 2)>>>>)])

(***************************************************************************)
(* _coingecko_growth and update_stablecoin_growth.  Timestamps are in days. *)
(***************************************************************************)
_coingecko_growth(resp) ==
    IF resp.kind = "raise" THEN Raises
    ELSE LET mkt_caps == resp.market_caps
             n == Len(mkt_caps)
         IN  IF n < 2 THEN Ok(None)
             ELSE LET now_ts == mkt_caps[n][1]
                      last_val == mkt_caps[n][2]
                      target_ts == now_ts - GrowthDays
                      hits == {k \in 1..n : mkt_caps[k][1] >= target_ts}
                      start_val == IF hits # {} THEN mkt_caps[SetMin(hits)][2]
                                   ELSE mkt_caps[1][2]
                  IN  IF start_val <= 0 THEN Ok(None)
                      ELSE Ok(Some(Ratio((last_val - start_val) * 100, start_val)))

\* The growths of the sources that answered with a value, in source order.
RECURSIVE Growths(_)
Growths(resps) ==
    IF resps = <<>> THEN <<>>
    ELSE LET g == _coingecko_growth(resps[1])
         IN  IF ~g.raised /\ g.value # None
             THEN <<g.value[1]>> \o Growths(Tail(resps))
             ELSE Growths(Tail(resps))

\* The sum divided by the number of sources instead of the successes.
AverageOverSources(growths) ==
    LET total == sumRat(growths)
    IN  Ratio(total.n, total.d * 2)

Average(growths) ==
    LET total == sumRat(growths)
    IN  Ratio(total.n, total.d * Len(growths))

update_stablecoin_growth(records, inp) ==
    LET i == find_indicator(records, KW_STABLE)
    IN  IF i = 0 THEN Skipped(records)
        ELSE LET growths == Growths(inp.cg)
             IN  IF growths = <<>> THEN Skipped(records)
                 ELSE LET avg_growth == Average(growths)
                      IN  Updated([records EXCEPT ![i] =
                              Write(@, round(avg_growth, 2),
                                    [source |-> "CoinGecko market_chart",
                                     coins |-> <<"tether", "usd-coin">>,
                                     sample_growth |->
                                        [k \in 1..Len(growths) |-> round(growths[k], 2)]],
                                    <<"USDT+USDC 90d growth",
                                      <<Some(round(avg_growth, 2))>>>>)])

(***************************************************************************)
(* fetch_usdt_dominance and update_usdt_d_dominance.                        *)
(***************************************************************************)
fetch_usdt_dominance(resp) ==
    IF resp.kind = "raise" THEN None
    ELSE resp.usdt

Band(indicator, key, default) ==
    Get(Get(indicator, "meta", EmptyDict), key, default)

update_usdt_d_dominance(records, inp) ==
    LET i == find_indicator(records, KW_USDT)
    IN  IF i = 0 THEN Skipped(records)
        ELSE LET dom == fetch_usdt_dominance(inp.dom)
             IN  IF dom = None THEN Skipped(records)
                 ELSE LET floor == Band(records[i], "band_floor", Ratio(4, 1))
                          ceil == Band(records[i], "band_ceiling", Ratio(6, 1))
                      IN  Updated([records EXCEPT ![i] =
                              Write(@, round(dom[1], 3),
                                    [source |-> "CoinGecko /global market_cap_percentage.usdt",
                                     band_floor |-> floor,
                                     band_ceiling |-> ceil],
                                    <<"USDT.D",
                                      <<Some(round(dom[1], 3)), Some(round(floor, 1)),
                                        Some(round(ceil, 1))>>>>)])

(***************************************************************************)
(* fetch_sosovalue_etf_flows and update_etf_net_flow_5d.  The request is   *)
(* inside try/except; reading the payload is not.  An item's flow is a     *)
(* number, missing, or text float() rejects; its date may be missing.      *)
(***************************************************************************)
FlowOf(item) == IF item.flow.kind = "num" THEN item.flow.v ELSE 0

fetch_sosovalue_etf_flows(resp) ==
    IF resp.kind = "raise" THEN Ok(None)
    ELSE IF resp.kind = "not-a-dict" THEN Raises
    ELSE LET items == resp.items
         IN  IF items = <<>> THEN Ok(None)
             ELSE IF \E k \in 1..Len(items) : items[k].flow.kind = "bad" THEN Raises
             ELSE LET dated == SelectSeq(items, LAMBDA it : it.date # None)
                      daily == [d \in {dated[k].date[1] : k \in 1..Len(dated)} |->
                                   sum([k \in 1..Len(dated) |->
                                           IF dated[k].date[1] = d
                                           THEN FlowOf(dated[k]) ELSE 0])]
                      keys == sorted(DOMAIN daily)
                      days == IF Len(keys) > LastDays
                              THEN SubSeq(keys, Len(keys) - LastDays + 1, Len(keys))
                              ELSE keys
                      total_5d == sum([k \in 1..Len(days) |-> daily[days[k]]])
                  IN  Ok(Some(total_5d))

update_etf_net_flow_5d(records, inp) ==
    LET i == find_indicator(records, KW_ETF)
    IN  IF i = 0 THEN Skipped(records)
        ELSE LET total5d == fetch_sosovalue_etf_flows(inp.etf)
             IN  IF total5d.raised THEN Raised(records)
                 ELSE IF total5d.value = None THEN Skipped(records)
                 ELSE Updated([records EXCEPT ![i] =
                          Write(@, round(Ratio(total5d.value[1], 1), 2),
                                [source |-> "SoSoValue Spot BTC ETF API",
                                 window |-> "last 5 days"],
                                <<"ETF 5d net flow",
                                  <<Some(round(Ratio(total5d.value[1], 1), 0))>>>>)])

(***************************************************************************)
(* What the providers may answer during a run.                             *)
(***************************************************************************)
RunDates == {0, YearDays}

Observations(series) ==
    [k \in 1..Len(series) |-> [date |-> series[k][1], value |-> Num(series[k][2])]]

\* Observations the parser drops, ahead of the usable ones.
JunkPrefixes == {<<>>, <<[date |-> 0, value |-> Sentinel], [date |-> 0, value |-> Bad]>>}

FredResponses ==
    {[kind |-> "raise", observations |-> <<>>]} \cup
    {[kind |-> "ok", observations |-> junk \o Observations(s)] :
        junk \in JunkPrefixes, s \in AscSeries(RunDates, 0..RunMaxVal, 2)}

\* The responses whose observations are all usable.
CleanFredResponses ==
    {r \in FredResponses :
        Len(_fred_series(r.observations)) = Len(r.observations)}

BtcFrame(columns, dates) ==
    [kind |-> "ok", columns |-> columns,
     rows |-> [d \in dates |-> [c \in columns |->
                  IF c = "Adj Close" THEN d + 1 ELSE d + 2]]]

BtcDownloads ==
    {[kind |-> "raise", columns |-> {}, rows |-> <<>>],
     BtcFrame({"Open", "Close"}, {}),
     BtcFrame({"Open"}, RunDates),
     BtcFrame({"Open", "Close"}, RunDates),
     BtcFrame({"Adj Close", "Close"}, RunDates)}

CgResponses ==
    {[kind |-> "raise", market_caps |-> <<>>]} \cup
    {[kind |-> "ok", market_caps |-> m] :
        m \in AscSeries({0, RequestDays - GrowthDays, RequestDays},
                        0..(RunMaxVal + 1), 3)}

DomResponses ==
    {[kind |-> "raise", usdt |-> None], [kind |-> "ok", usdt |-> None]} \cup
    {[kind |-> "ok", usdt |-> Some(Ratio(4 * 16 + k, 16))] : k \in 0..RunMaxVal}

EtfItems ==
    {[date |-> d, flow |-> f] :
        d \in {None} \cup {Some(k) : k \in 1..2},
        f \in {Num(v) : v \in -1..RunMaxVal} \cup {Sentinel, Bad}}

\* One flow a day over more days than the window holds.
EtfSixDays == [k \in 1..(LastDays + 1) |-> [date |-> Some(k), flow |-> Num(k)]]

EtfResponses ==
    {[kind |-> "raise", items |-> <<>>], [kind |-> "not-a-dict", items |-> <<>>],
     [kind |-> "ok", items |-> EtfSixDays]} \cup
    {[kind |-> "ok", items |-> items] : items \in UNION {[1..n -> EtfItems] : n \in 0..2}}

NoInput == [fred |-> <<>>, btc |-> <<>>, cg |-> <<>>, dom |-> <<>>, etf |-> <<>>]

FredInputs == {[NoInput EXCEPT !.fred = <<r>>] : r \in FredResponses}

NetInputs ==
    {[NoInput EXCEPT !.fred = <<r, t, b>>, !.btc = dl] :
        r \in CleanFredResponses, t \in CleanFredResponses,
        b \in CleanFredResponses, dl \in BtcDownloads}

StableInputs == {[NoInput EXCEPT !.cg = <<a, b>>] : a \in CgResponses, b \in CgResponses}

DomInputs == {[NoInput EXCEPT !.dom = r] : r \in DomResponses}

EtfInputs == {[NoInput EXCEPT !.etf = r] : r \in EtfResponses}

(***************************************************************************)
(* The stores a run may start from: up to MaxStore consecutive records of  *)
(* the list below.                                                         *)
(***************************************************************************)
OldDetail == <<"as loaded", <<>>>>

AllRecords ==
    << [name |-> <<"NET", "LIQUIDITY", "composite", "YoY">>, current |-> 7,
        meta |-> [note |-> "keep", beta_vs_btc |-> Some(5)], detail |-> OldDetail],
       [name |-> <<"Net", "Liquidity", "composite", "extra">>, current |-> 7,
        detail |-> OldDetail],
       [name |-> <<"stablecoin-supply", "90", "day-growth">>, current |-> 7,
        meta |-> [note |-> "keep"], detail |-> OldDetail],
       [name |-> <<"USDT.D", "stablecoin-share">>, current |-> 7,
        meta |-> [band_floor |-> Ratio(17, 4), band_ceiling |-> Ratio(6, 1),
                  note |-> "keep"],
        detail |-> OldDetail],
       [name |-> <<"USDT.D", "stablecoin-share", "alt">>, current |-> 7,
        detail |-> OldDetail],
       [name |-> <<"Bitcoin", "ETF", "5", "day-net-flow">>, current |-> 7,
        meta |-> EmptyDict, detail |-> OldDetail],
       [label |-> "no name", current |-> 7],
       [name |-> <<"RRP", "reverse-repo", "YoY">>, current |-> 0, detail |-> OldDetail],
       [name |-> <<"TGA", "treasury-account", "YoY">>, current |-> 7,
        meta |-> [note |-> "keep"], detail |-> OldDetail],
       [name |-> <<"FED", "balance-sheet", "YoY">>, current |-> 7,
        meta |-> [source |-> "as loaded", last_date |-> 1], detail |-> OldDetail,
        unit |-> "%"] >>

Stores ==
    UNION {{SubSeq(AllRecords, first, first + n - 1) :
               first \in 1..(Len(AllRecords) - n + 1)} : n \in 0..MaxStore}

(***************************************************************************)
(* main(): load, the seven update steps in order, save.  pc is the place   *)
(* main() is at; prev and last keep the records before the last step and   *)
(* what the step returned; old is the file the run started from.           *)
(***************************************************************************)
NoLast == [step |-> "none", status |-> "none", growths |-> <<>>]

Init ==
    /\ pc = "load"
    /\ file \in {StoreFile(st) : st \in Stores} \cup {NoFile}
    /\ old = file
    /\ data = <<>>
    /\ prev = <<>>
    /\ last = NoLast
    /\ fn = "none"
    /\ args = NoCall
    /\ result = <<>>

Load ==
    /\ pc = "load"
    /\ data' = load_data(file)
    /\ pc' = IF data' = <<>> THEN "done" ELSE "update_rrp_yoy"
    /\ UNCHANGED <<file, old, prev, last, fn, args, result>>

\* A step returns and main() goes on, or its exception ends main().
Step(name, r, growths, next) ==
    /\ pc' = IF r.status = "raised" THEN "aborted" ELSE next
    /\ prev' = data
    /\ data' = r.data
    /\ last' = [step |-> name, status |-> r.status, growths |-> growths]
    /\ UNCHANGED <<file, old, fn, args, result>>

\* The providers are asked only once the record is found.
InputsFor(keyword, inputs) ==
    IF find_indicator(data, keyword) = 0 THEN {NoInput} ELSE inputs

Update_rrp_yoy ==
    /\ pc = "update_rrp_yoy"
    /\ \E inp \in InputsFor(KW_RRP, FredInputs) :
           Step("update_rrp_yoy", update_rrp_yoy(data, inp), <<>>, "update_tga_yoy")

Update_tga_yoy ==
    /\ pc = "update_tga_yoy"
    /\ \E inp \in InputsFor(KW_TGA, FredInputs) :
           Step("update_tga_yoy", update_tga_yoy(data, inp), <<>>, "update_fed_bs_yoy")

Update_fed_bs_yoy ==
    /\ pc = "update_fed_bs_yoy"
    /\ \E inp \in InputsFor(KW_FED, FredInputs) :
           Step("update_fed_bs_yoy", update_fed_bs_yoy(data, inp), <<>>,
                "update_net_liquidity")

Update_net_liquidity ==
    /\ pc = "update_net_liquidity"
    /\ \E inp \in InputsFor(KW_NET, NetInputs) :
           Step("update_net_liquidity", update_net_liquidity(data, inp), <<>>,
                "update_stablecoin_growth")

Update_stablecoin_growth ==
    /\ pc = "update_stablecoin_growth"
    /\ \E inp \in InputsFor(KW_STABLE, StableInputs) :
           Step("update_stablecoin_growth", update_stablecoin_growth(data, inp),
                [k \in 1..Len(inp.cg) |-> _coingecko_growth(inp.cg[k])],
                "update_usdt_d_dominance")

Update_usdt_d_dominance ==
    /\ pc = "update_usdt_d_dominance"
    /\ \E inp \in InputsFor(KW_USDT, DomInputs) :
           Step("update_usdt_d_dominance", update_usdt_d_dominance(data, inp), <<>>,
                "update_etf_net_flow_5d")

Update_etf_net_flow_5d ==
    /\ pc = "update_etf_net_flow_5d"
    /\ \E inp \in InputsFor(KW_ETF, EtfInputs) :
           Step("update_etf_net_flow_5d", update_etf_net_flow_5d(data, inp), <<>>,
                "save_data")

(***************************************************************************)
(* save_data: open(path, "w") truncates data.json, json.dump writes the    *)
(* records into it, and leaving the with block closes it.                  *)
(***************************************************************************)
Save_open ==
    /\ pc = "save_data"
    /\ file' = [exists |-> TRUE, recs |-> <<>>, complete |-> FALSE]
    /\ pc' = "json.dump"
    /\ UNCHANGED <<data, old, prev, last, fn, args, result>>

Save_dump ==
    /\ pc = "json.dump"
    /\ Len(file.recs) < Len(data)
    /\ file' = [file EXCEPT !.recs = Append(@, data[Len(@) + 1])]
    /\ UNCHANGED <<pc, data, old, prev, last, fn, args, result>>

Save_close ==
    /\ pc = "json.dump"
    /\ Len(file.recs) = Len(data)
    /\ file' = [file EXCEPT !.complete = TRUE]
    /\ pc' = "done"
    /\ UNCHANGED <<data, old, prev, last, fn, args, result>>

\* The process is killed, or the machine stops: what is on disk stays.
Crash ==
    /\ pc \notin {"done", "aborted", "crashed"}
    /\ pc' = "crashed"
    /\ data' = <<>>
    /\ prev' = <<>>
    /\ last' = NoLast
    /\ UNCHANGED <<file, old, fn, args, result>>

Next ==
    \/ Load
    \/ Update_rrp_yoy
    \/ Update_tga_yoy
    \/ Update_fed_bs_yoy
    \/ Update_net_liquidity
    \/ Update_stablecoin_growth
    \/ Update_usdt_d_dominance
    \/ Update_etf_net_flow_5d
    \/ Save_open
    \/ Save_dump
    \/ Save_close
    \/ Crash

Spec == Init /\ [][Next]_vars

(***************************************************************************)
(* Properties of a run of main(), checked under Spec.                      *)
(***************************************************************************)
KeywordOf(step) ==
    CASE step = "update_rrp_yoy" -> KW_RRP
      [] step = "update_tga_yoy" -> KW_TGA
      [] step = "update_fed_bs_yoy" -> KW_FED
      [] step = "update_net_liquidity" -> KW_NET
      [] step = "update_stablecoin_growth" -> KW_STABLE
      [] step = "update_usdt_d_dominance" -> KW_USDT
      [] step = "update_etf_net_flow_5d" -> KW_ETF

\* The meta keys each step's update names.
PatchKeys(step) ==
    CASE step = "update_rrp_yoy" -> {"source", "last_date"}
      [] step = "update_tga_yoy" -> {"source", "last_date"}
      [] step = "update_fed_bs_yoy" -> {"source", "last_date"}
      [] step = "update_net_liquidity" ->
            {"source", "last_date", "impulse_90d_pct", "beta_vs_btc"}
      [] step = "update_stablecoin_growth" -> {"source", "coins", "sample_growth"}
      [] step = "update_usdt_d_dominance" -> {"source", "band_floor", "band_ceiling"}
      [] step = "update_etf_net_flow_5d" -> {"source", "window"}

\* C1: no exception raised inside an update step propagates out of it, so
\* main() is never ended by one: every later step runs and save_data is
\* reached.
C1_NoStepRaises == last.status # "raised" /\ pc # "aborted"

\* C2: a step that skips its update leaves the record list exactly as it
\* was before the step.
C2_SkipLeavesRecords == last.status = "skipped" => data = prev

\* A step that found its record, a record without meta, and skipped.
C2_Witness ==
    /\ last.status = "skipped"
    /\ last.step = "update_rrp_yoy"
    /\ find_indicator(prev, KW_RRP) # 0
    /\ "meta" \notin DOMAIN prev[find_indicator(prev, KW_RRP)]
    /\ Len(prev) >= 2

\* C3: update_stablecoin_growth writes to current the mean of the growths
\* of exactly the sources that succeeded, one success being enough, and
\* skips only when every source failed.
C3_StableMeanOfSuccesses ==
    (last.step = "update_stablecoin_growth"
        /\ find_indicator(prev, KW_STABLE) # 0) =>
        LET i == find_indicator(prev, KW_STABLE)
            ok == SelectSeq(last.growths, LAMBDA g : ~g.raised /\ g.value # None)
        IN  CASE Len(ok) = 0 -> last.status = "skipped" /\ data = prev
              [] Len(ok) = 1 ->
                    /\ last.status = "updated"
                    /\ data[i].current = round(ok[1].value[1], 2)
              [] Len(ok) = 2 ->
                    LET a == ok[1].value[1]
                        b == ok[2].value[1]
                    IN  /\ last.status = "updated"
                        /\ data[i].current =
                              round(Ratio(a.n * b.d + b.n * a.d, 2 * a.d * b.d), 2)

\* One source raised, the other gave a non-zero growth, and it was written.
C3_Witness ==
    /\ last.step = "update_stablecoin_growth"
    /\ last.status = "updated"
    /\ Len(last.growths) = 2
    /\ last.growths[1].raised
    /\ ~last.growths[2].raised
    /\ last.growths[2].value # None
    /\ last.growths[2].value[1].n # 0
    /\ data[find_indicator(prev, KW_STABLE)].current # 0

\* C4: at every point of a run, a crash included, data.json holds either
\* the complete store the run started from or the complete new store.
C4_FileNeverPartial ==
    \/ file = old
    \/ pc = "done" /\ file = StoreFile(data)

\* C5: an applied update changes only current, detail and the meta keys of
\* its patch; the record's other fields and meta keys, and the other
\* records of the list, stay as they were.
C5_UpdateFrame ==
    last.status = "updated" =>
        LET i == find_indicator(prev, KeywordOf(last.step))
            before == prev[i]
            after == data[i]
            meta0 == Get(before, "meta", EmptyDict)
        IN  /\ Len(data) = Len(prev)
            /\ \A j \in (1..Len(prev)) \ {i} : data[j] = prev[j]
            /\ DOMAIN after = DOMAIN before \cup {"current", "meta", "detail"}
            /\ \A k \in DOMAIN before \ {"current", "meta", "detail"} :
                  after[k] = before[k]
            /\ DOMAIN after.meta = DOMAIN meta0 \cup PatchKeys(last.step)
            /\ \A k \in DOMAIN meta0 \ PatchKeys(last.step) : after.meta[k] = meta0[k]

\* An update applied to a record whose meta held a key outside the patch,
\* in a list with another record.
C5_Witness ==
    /\ last.status = "updated"
    /\ Len(prev) >= 2
    /\ LET i == find_indicator(prev, KeywordOf(last.step))
       IN  /\ "meta" \in DOMAIN prev[i]
           /\ "note" \in DOMAIN prev[i].meta
           /\ data[i].current # prev[i].current
           /\ data[i].meta # prev[i].meta

(***************************************************************************)
(* An update step run on a loaded store, and run once more with the same   *)
(* answers from the providers.  args keeps the answers, prev the records   *)
(* after the first run.                                                    *)
(***************************************************************************)
StepOf(step, records, inp) ==
    CASE step = "update_rrp_yoy" -> update_rrp_yoy(records, inp)
      [] step = "update_tga_yoy" -> update_tga_yoy(records, inp)
      [] step = "update_fed_bs_yoy" -> update_fed_bs_yoy(records, inp)
      [] step = "update_net_liquidity" -> update_net_liquidity(records, inp)
      [] step = "update_stablecoin_growth" -> update_stablecoin_growth(records, inp)
      [] step = "update_usdt_d_dominance" -> update_usdt_d_dominance(records, inp)
      [] step = "update_etf_net_flow_5d" -> update_etf_net_flow_5d(records, inp)

InitTwice ==
    /\ pc = "first"
    /\ data \in Stores \ {<<>>}
    /\ file = StoreFile(data)
    /\ old = file
    /\ prev = <<>>
    /\ last = NoLast
    /\ fn = "none"
    /\ args = NoInput
    /\ result = <<>>

Once(step, inp) ==
    /\ data' = StepOf(step, data, inp).data
    /\ prev' = data'
    /\ last' = [step |-> step, status |-> StepOf(step, data, inp).status,
                growths |-> <<>>]
    /\ args' = inp
    /\ pc' = "second"
    /\ UNCHANGED <<file, old, fn, result>>

Once_rrp_yoy ==
    /\ pc = "first"
    /\ \E inp \in InputsFor(KW_RRP, FredInputs) : Once("update_rrp_yoy", inp)

Once_tga_yoy ==
    /\ pc = "first"
    /\ \E inp \in InputsFor(KW_TGA, FredInputs) : Once("update_tga_yoy", inp)

Once_fed_bs_yoy ==
    /\ pc = "first"
    /\ \E inp \in InputsFor(KW_FED, FredInputs) : Once("update_fed_bs_yoy", inp)

Once_net_liquidity ==
    /\ pc = "first"
    /\ \E inp \in InputsFor(KW_NET, NetInputs) : Once("update_net_liquidity", inp)

Once_stablecoin_growth ==
    /\ pc = "first"
    /\ \E inp \in InputsFor(KW_STABLE, StableInputs) :
           Once("update_stablecoin_growth", inp)

Once_usdt_d_dominance ==
    /\ pc = "first"
    /\ \E inp \in InputsFor(KW_USDT, DomInputs) : Once("update_usdt_d_dominance", inp)

Once_etf_net_flow_5d ==
    /\ pc = "first"
    /\ \E inp \in InputsFor(KW_ETF, EtfInputs) : Once("update_etf_net_flow_5d", inp)

Again ==
    /\ pc = "second"
    /\ data' = StepOf(last.step, data, args).data
    /\ pc' = "twice"
    /\ UNCHANGED <<file, old, prev, last, fn, args, result>>

NextTwice ==
    \/ Once_rrp_yoy
    \/ Once_tga_yoy
    \/ Once_fed_bs_yoy
    \/ Once_net_liquidity
    \/ Once_stablecoin_growth
    \/ Once_usdt_d_dominance
    \/ Once_etf_net_flow_5d
    \/ Again

SpecTwice == InitTwice /\ [][NextTwice]_vars

\* C6: running an update step twice with the same fetched inputs leaves
\* the records as running it once left them.
C6_UpdateIdempotent == pc = "twice" => data = prev

\* update_usdt_d_dominance applied twice to a record loaded without meta:
\* the second run read back the band the first run wrote.
C6_Witness ==
    /\ pc = "twice"
    /\ last.step = "update_usdt_d_dominance"
    /\ last.status = "updated"
    /\ LET i == find_indicator(data, KW_USDT)
       IN  /\ "meta" \notin DOMAIN old.recs[i]
           /\ data[i].meta.band_floor = Ratio(4, 1)
           /\ data[i].current # old.recs[i].current

(***************************************************************************)
(* The series helpers called on their own: the inputs are drawn in InitFn, *)
(* one Call_* action per helper applies it and stores what it returned.    *)
(***************************************************************************)
FnDates == 0..FnMaxDate
FnVals == 0..FnMaxVal
SignedVals == -1..FnMaxVal

\* The points of a series dated on or after latest_date - days.
Window(series, days) ==
    SelectSeq(series, LAMBDA p : p[1] >= series[Len(series)][1] - days)

InitFn ==
    /\ pc = "call"
    /\ data = <<>>
    /\ file = <<>>
    /\ old = <<>>
    /\ prev = <<>>
    /\ last = <<>>
    /\ result = <<>>
    /\ \/ /\ fn = "_value_near"
          /\ \E s \in AnySeries(FnDates, FnVals, FnMaxLen) :
                \E target \in -1..(FnMaxDate + 1) :
                    args = [series |-> <<s>>, n |-> target]
       \/ /\ fn = "_yoy"
          /\ \E s \in AscSeries(FnDates \cup {YearDays + d : d \in FnDates},
                                SignedVals, FnMaxLen) :
                args = [series |-> <<s>>, n |-> 0]
       \/ /\ fn = "_change_vs_days_ago"
          /\ \E s \in AscSeries(0..(FnMaxDate + 1), SignedVals, FnMaxLen) :
                \E days \in 0..FnMaxDate :
                    args = [series |-> <<s>>, n |-> days]
       \/ /\ fn = "_merge_net_liquidity"
          /\ \E rrp, tga, bs \in AscSeries(0..MergeMaxDate, FnVals, FnMaxLen) :
                args = [series |-> <<rrp, tga, bs>>, n |-> 0]

Return(value) ==
    /\ pc = "call"
    /\ pc' = "returned"
    /\ result' = value
    /\ UNCHANGED <<data, file, old, prev, last, fn, args>>

Call_value_near ==
    /\ fn = "_value_near"
    /\ Return(<<_value_near(args.series[1], args.n)>>)

Call_yoy ==
    /\ fn = "_yoy"
    /\ Return(<<_yoy(args.series[1])>>)

\* The helper on the series, and on the series cut down to its window.
Call_change_vs_days_ago ==
    /\ fn = "_change_vs_days_ago"
    /\ Return(<<_change_vs_days_ago(args.series[1], args.n),
                IF args.series[1] = <<>> THEN None
                ELSE _change_vs_days_ago(Window(args.series[1], args.n), args.n)>>)

Call_merge_net_liquidity ==
    /\ fn = "_merge_net_liquidity"
    /\ Return(<<_merge_net_liquidity(args.series[1], args.series[2],
                                     args.series[3])>>)

NextFn ==
    \/ Call_value_near
    \/ Call_yoy
    \/ Call_change_vs_days_ago
    \/ Call_merge_net_liquidity

SpecFn == InitFn /\ [][NextFn]_vars

(***************************************************************************)
(* Properties of the series helpers, checked under SpecFn.                 *)
(***************************************************************************)
Returned(name) == fn = name /\ pc = "returned"

Dist(series, i, target) == Abs(series[i][1] - target)

\* C7: _value_near returns no value for the empty series, and otherwise the
\* value of the point at the least day-distance from the target; among
\* equidistant points, the one with the lowest index.
C7_ValueNearFirstNearest ==
    Returned("_value_near") =>
        LET s == args.series[1]
            t == args.n
        IN  IF s = <<>> THEN result[1] = None
            ELSE \E i \in 1..Len(s) :
                    /\ \A j \in 1..Len(s) : Dist(s, j, t) >= Dist(s, i, t)
                    /\ \A j \in 1..(i - 1) : Dist(s, j, t) > Dist(s, i, t)
                    /\ result[1] = Some(s[i][2])

\* A call where two points with different values tie for nearest.
C7_Witness ==
    /\ Returned("_value_near")
    /\ LET s == args.series[1]
           t == args.n
       IN  \E i, j \in 1..Len(s) :
              /\ i < j
              /\ Dist(s, i, t) = Dist(s, j, t)
              /\ \A k \in 1..Len(s) : Dist(s, k, t) >= Dist(s, i, t)
              /\ s[i][2] # s[j][2]
              /\ result[1] = Some(s[i][2])

\* C8 as stated: _yoy returns no result for the empty series and for every
\* series of a single point.
C8_YoySingleIndeterminate ==
    (Returned("_yoy") /\ Len(args.series[1]) <= 1) => result[1] = None

\* C8 amended: _yoy returns no result for the empty series and for a single
\* point whose value is 0; for a single point with any other value it
\* returns the ratio 0, the point being its own nearest year-ago point.
C8_YoySinglePoint ==
    (Returned("_yoy") /\ Len(args.series[1]) <= 1) =>
        LET s == args.series[1]
        IN  IF s = <<>> \/ s[1][2] = 0 THEN result[1] = None
            ELSE result[1] # None /\ result[1][1].n = 0 /\ result[1][1].d > 0

\* A single point with a non-zero value, for which _yoy returned a ratio.
C8_Witness ==
    /\ Returned("_yoy")
    /\ Len(args.series[1]) = 1
    /\ args.series[1][1][2] # 0
    /\ result[1] # None

\* C9 as stated: the result of _change_vs_days_ago on an ascending series
\* is the result on the series with every point dated before
\* latest_date - days removed.
C9_WindowInsensitive ==
    Returned("_change_vs_days_ago") => OptRatEq(result[1], result[2])

\* The points outside the window all lie farther from the reference date
\* than the nearest point inside the window.
OutsideFarther(series, days) ==
    LET ref == series[Len(series)][1] - days
        inside == {i \in 1..Len(series) : series[i][1] >= ref}
        m == SetMin({Dist(series, i, ref) : i \in inside})
    IN  \A i \in (1..Len(series)) \ inside : Dist(series, i, ref) > m

\* C9 amended: points dated before latest_date - days do not change the
\* result when each of them is farther from latest_date - days than the
\* nearest point dated on or after it.
C9_WindowInsensitiveWhenFarther ==
    (Returned("_change_vs_days_ago") /\ args.series[1] # <<>>
        /\ OutsideFarther(args.series[1], args.n)) =>
        OptRatEq(result[1], result[2])

\* A series with a point outside the window, farther than the nearest
\* point inside, on which the helper returned a ratio.
C9_Witness ==
    /\ Returned("_change_vs_days_ago")
    /\ args.series[1] # <<>>
    /\ Window(args.series[1], args.n) # args.series[1]
    /\ OutsideFarther(args.series[1], args.n)
    /\ result[1] # None

MergeShape(out, rrp, tga, bs) ==
    /\ \A i \in 1..(Len(out) - 1) : out[i][1] < out[i + 1][1]
    /\ DatesOf(out) = DatesOf(rrp) \cup DatesOf(tga) \cup DatesOf(bs)
    /\ Len(out) = Cardinality(DatesOf(rrp) \cup DatesOf(tga) \cup DatesOf(bs))

\* C10 as stated: the merged series is strictly ascending with one point per
\* date of the union, and each value is nearest(bs, d) - nearest(rrp, d) -
\* nearest(tga, d), each a value _value_near returned.
C10_MergeNearest ==
    Returned("_merge_net_liquidity") =>
        LET rrp == args.series[1]
            tga == args.series[2]
            bs == args.series[3]
            out == result[1]
        IN  /\ MergeShape(out, rrp, tga, bs)
            /\ \A i \in 1..Len(out) :
                  LET r == _value_near(rrp, out[i][1])
                      t == _value_near(tga, out[i][1])
                      b == _value_near(bs, out[i][1])
                  IN  /\ r # None /\ t # None /\ b # None
                      /\ out[i][2] = b[1] - r[1] - t[1]

ZeroIfNone(opt) == IF opt = None THEN 0 ELSE opt[1]

\* C10 amended: as stated, with a source that has no point counted as 0 at
\* every date.
C10_MergeNearestOrZero ==
    Returned("_merge_net_liquidity") =>
        LET rrp == args.series[1]
            tga == args.series[2]
            bs == args.series[3]
            out == result[1]
        IN  /\ MergeShape(out, rrp, tga, bs)
            /\ \A i \in 1..Len(out) :
                  out[i][2] = ZeroIfNone(_value_near(bs, out[i][1]))
                              - ZeroIfNone(_value_near(rrp, out[i][1]))
                              - ZeroIfNone(_value_near(tga, out[i][1]))

\* A merge of an empty reverse-repo series with two sources that differ in
\* their dates, giving at least two points, one of them non-zero.
C10_Witness ==
    /\ Returned("_merge_net_liquidity")
    /\ args.series[1] = <<>>
    /\ DatesOf(args.series[2]) # DatesOf(args.series[3])
    /\ \E i \in 1..Len(result[1]) : result[1][i][2] # 0
    /\ Len(result[1]) >= 2

====
